---- MODULE Spec2Model ----
(***************************************************************************)
(* The unittest-style grader of mfbutner/pl_autograders: the recorder      *)
(* UTSGTestResult (utsg_test_result.py), the outcome record                *)
(* UTSGTestCaseInfo and the sub-test scope UTSGSubTest (utsg_testcase.py), *)
(* the decorators (utsg_decorators.py) and the driver run_tests            *)
(* (run_tests.py).  The recorder is driven by the protocol of the standard *)
(* library's unittest.TestCase.run / TestSuite.run (Python 3.10, the       *)
(* version the sources name): startTest, the test method, the recorded     *)
(* errors fed to addSubTest / addFailure / addError, then addSuccess /     *)
(* addExpectedFailure / addUnexpectedSuccess, then stopTest.               *)
(*                                                                         *)
(* Floats are modelled exactly: points are integers, the score and its     *)
(* bounds are rationals in lowest terms.  None is the empty sequence and a *)
(* set value v is <<v>>.                                                   *)
(***************************************************************************)
EXTENDS Integers, Sequences, FiniteSets, TLC

\* ---------------------------------------------------------------- bounds
\* Most outcomes (test methods started plus sub-tests created) one recorder
\* sees; the loader discovered at most that many test methods.
MaxOutcomes == 3
\* Most calls of stopTestRun on one recorder.
MaxRunEnds == 2

Tests == 1..MaxOutcomes

\* ------------------------------------------------------------- rationals
RECURSIVE Gcd(_, _)
Gcd(a, b) == IF b = 0 THEN a ELSE Gcd(b, a % b)

Abs(x) == IF x < 0 THEN -x ELSE x

\* n/d in lowest terms, d > 0.
Rat(n, d) ==
    LET g == Gcd(Abs(n), d)
    IN  [n |-> n \div g, d |-> d \div g]

RatLess(a, b) == a.n * b.d < b.n * a.d

\* Python's max(a, b) and min(a, b): the first argument unless the second
\* is strictly greater (smaller).
PyMax(a, b) == IF RatLess(a, b) THEN b ELSE a
PyMin(a, b) == IF RatLess(b, a) THEN b ELSE a

Zero == Rat(0, 1)
One == Rat(1, 1)
Half == Rat(1, 2)

\* ------------------------------------------------------------- optionals
None == <<>>
Some(v) == <<v>>
\* Python truthiness of an Optional[str]: None and "" are falsy.
Truthy(o) == o # None /\ o[1] # ""

\* ---------------------------------------------------------------- status
UTSGTestStatus == {"SCHEDULED", "RUNNING", "PASSED", "FAILED", "CRASHED"}
completed == {"PASSED", "FAILED"}
ran == completed \cup {"CRASHED"}

\* The exceptions a test body or a sub-test body can end with.
AssertionError == "AssertionError"
UngradableError == "UngradableError"
RuntimeError == "RuntimeError"
\* unittest.SkipTest: testPartExecutor notes the skip and records no error.
SkipTest == "SkipTest"
\* The exceptions that reach run_tests from outside the test bodies.
OSError == "OSError"
ImportError == "ImportError"
AttributeError == "AttributeError"
FileNotFoundError == "FileNotFoundError"
ExcTypes == {AssertionError, UngradableError, RuntimeError}

\* ------------------------------------------------------ UTSGTestCaseInfo
UTSGTestCaseInfo(name, description, max_points, points_lost_on_failure, include_in_results, hidden) ==
    [name |-> name, description |-> description, max_points |-> max_points,
     points_lost_on_failure |-> points_lost_on_failure,
     include_in_results |-> include_in_results, hidden |-> hidden,
     points |-> None, message |-> None, output |-> None, images |-> <<>>,
     status |-> "SCHEDULED"]

\* The method name the loader gives test t.
MethodName(t) == "T" \o ToString(t)

\* UTSGTestCase.__init__ with its default arguments.
UTSGTestCaseInit(t) == UTSGTestCaseInfo(MethodName(t), None, 1, 0, TRUE, FALSE)

VARIABLES
    utsg_test_case_info,   \* [Tests -> info]: each test's own outcome
    utsg_subtests,         \* [Tests -> Seq(info)]: each test's sub-tests
    visible_tests_info,    \* Seq(ref): refs are <<t, k>>, k = 0 the test itself
    hidden_tests_info,
    excluded_tests_info,
    utsg_results,          \* the dictionary written to results.json
    utsg_score_floor,
    utsg_score_ceiling,
    scored,
    shouldStop,            \* unittest.TestResult.shouldStop, set by stop()
    pc,                    \* where the driver is
    cur,                   \* number of tests started so far
    open_sub,              \* index of the sub-test whose scope is open, or 0
    outcome,               \* unittest's _Outcome of the running test
    runs,                  \* calls of startTestRun so far
    run_ends,              \* calls of stopTestRun so far
    artifact,              \* what results.json holds: None or Some(dict)
    exception,             \* the exception propagating to run_tests, or None
    test_attrs,            \* UTSGTestCase.message / .output (class attributes)
    last_event,            \* the recorder event delivered last
    fired,                 \* history: addError / addUnexpectedSuccess delivered
                           \* since the last startTestRun
    visible_at_crash,      \* history: <<ref, points>> of the visible list when
                           \* addError was first delivered in this run, or None
    raw_score,             \* history: the value of line 216-217 at the last
                           \* scoring, or None
    explicit,              \* history: the <<ref, member>> test code has assigned
    writes                 \* history: attempts to write results.json so far

vars == <<utsg_test_case_info, utsg_subtests, visible_tests_info,
          hidden_tests_info, excluded_tests_info, utsg_results,
          utsg_score_floor, utsg_score_ceiling, scored, shouldStop, pc, cur,
          open_sub, outcome, runs, run_ends, artifact, exception, test_attrs,
          last_event, fired, visible_at_crash, raw_score, explicit, writes>>

recorder_vars == <<utsg_results, utsg_score_floor, utsg_score_ceiling, scored,
                   shouldStop>>
heap_vars == <<utsg_test_case_info, utsg_subtests, visible_tests_info,
               hidden_tests_info, excluded_tests_info>>

\* Outcomes that exist so far: the tests started and the sub-tests created.
RECURSIVE SubTestsUpTo(_)
SubTestsUpTo(t) ==
    IF t = 0 THEN 0 ELSE Len(utsg_subtests[t]) + SubTestsUpTo(t - 1)
Outcomes == cur + SubTestsUpTo(cur)

\* ------------------------------------------------------------------ heap
\* The outcome objects and the three lists that hold references to them.
Heap ==
    [tci |-> utsg_test_case_info, subs |-> utsg_subtests,
     visible |-> visible_tests_info, hidden |-> hidden_tests_info,
     excluded |-> excluded_tests_info]

Deref(h, ref) ==
    IF ref[2] = 0 THEN h.tci[ref[1]] ELSE h.subs[ref[1]][ref[2]]

Update(h, ref, i) ==
    IF ref[2] = 0 THEN [h EXCEPT !.tci[ref[1]] = i]
    ELSE [h EXCEPT !.subs[ref[1]][ref[2]] = i]

SetHeap(h) ==
    /\ utsg_test_case_info' = h.tci
    /\ utsg_subtests' = h.subs
    /\ visible_tests_info' = h.visible
    /\ hidden_tests_info' = h.hidden
    /\ excluded_tests_info' = h.excluded

\* ------------------------------------------------- recorder: filing
HiddenFirst_log_test_result(h, ref) ==
    IF Deref(h, ref).hidden
    THEN [h EXCEPT !.hidden = Append(@, ref)]
    ELSE IF ~Deref(h, ref).include_in_results
         THEN [h EXCEPT !.excluded = Append(@, ref)]
         ELSE [h EXCEPT !.visible = Append(@, ref)]

\* UTSGTestResult._log_test_result
HiddenIntoVisible_log_test_result(h, ref) ==
    IF ~Deref(h, ref).include_in_results
    THEN [h EXCEPT !.excluded = Append(@, ref)]
    ELSE [h EXCEPT !.visible = Append(@, ref)]

_log_test_result(h, ref) ==
    IF ~Deref(h, ref).include_in_results
    THEN [h EXCEPT !.excluded = Append(@, ref)]
    ELSE IF Deref(h, ref).hidden
         THEN [h EXCEPT !.hidden = Append(@, ref)]
         ELSE [h EXCEPT !.visible = Append(@, ref)]

PenaliseAlways_log_failure(h, ref) ==
    LET test == Deref(h, ref)
        done == [test EXCEPT
                   !.status = "FAILED",
                   !.points = Some(-test.points_lost_on_failure),
                   !.message = IF @ = None
                               THEN Some("Failed " \o test.name) ELSE @]
    IN  _log_test_result(Update(h, ref, done), ref)

\* UTSGTestResult._log_failure
_log_failure(h, ref) ==
    LET test == Deref(h, ref)
        done == [test EXCEPT
                   !.status = "FAILED",
                   !.points = IF @ = None
                              THEN Some(-test.points_lost_on_failure) ELSE @,
                   !.message = IF @ = None
                               THEN Some("Failed " \o test.name) ELSE @]
    IN  _log_test_result(Update(h, ref, done), ref)

\* UTSGTestResult._log_success
_log_success(h, ref) ==
    LET test == Deref(h, ref)
        done == [test EXCEPT
                   !.status = "PASSED",
                   !.points = IF @ = None THEN Some(test.max_points) ELSE @,
                   !.message = IF @ = None
                               THEN Some("Passed " \o test.name) ELSE @]
    IN  _log_test_result(Update(h, ref, done), ref)

\* --------------------------------------------------------- UTSGRunSummary
RECURSIVE SumSeq(_)
SumSeq(xs) == IF xs = <<>> THEN 0 ELSE Head(xs) + SumSeq(Tail(xs))

\* The outcome objects the list tests refers to, in list order.
Infos(h, tests) == [i \in 1..Len(tests) |-> Deref(h, tests[i])]

PointsEarnedOnlyIfPassed(test) ==
    IF test.status = "PASSED" THEN test.points[1] ELSE 0

PointsAvailableOnlyIfPassed(test) ==
    IF test.status = "PASSED" THEN test.max_points ELSE 0

PointsEarnedOf(test) == IF test.status \in completed THEN test.points[1] ELSE 0
PointsAvailableOf(test) == test.max_points
CountIf(b) == IF b THEN 1 ELSE 0
RanOf(test) == CountIf(test.status \in ran)
PassedOf(test) == CountIf(test.status = "PASSED")
FailedOf(test) == CountIf(test.status = "FAILED")
OneOf(test) == CountIf(TRUE)

\* UTSGRunSummary(tests): __post_init__
UTSGRunSummary(h, tests) ==
    LET infos == Infos(h, tests)
        n == Len(tests)
    IN  [tests |-> tests,
         num_tests_available |-> SumSeq([i \in 1..n |-> OneOf(infos[i])]),
         num_tests_ran |-> SumSeq([i \in 1..n |-> RanOf(infos[i])]),
         num_tests_passed |-> SumSeq([i \in 1..n |-> PassedOf(infos[i])]),
         num_tests_failed |-> SumSeq([i \in 1..n |-> FailedOf(infos[i])]),
         points_available |-> SumSeq([i \in 1..n |-> PointsAvailableOf(infos[i])]),
         points_earned |-> SumSeq([i \in 1..n |-> PointsEarnedOf(infos[i])])]

SummaryAddKeepsFailedOfFirst(a, b) ==
    [tests |-> a.tests \o b.tests,
     num_tests_available |-> a.num_tests_available + b.num_tests_available,
     num_tests_ran |-> a.num_tests_ran + b.num_tests_ran,
     num_tests_passed |-> a.num_tests_passed + b.num_tests_passed,
     num_tests_failed |-> a.num_tests_failed,
     points_available |-> a.points_available + b.points_available,
     points_earned |-> a.points_earned + b.points_earned]

\* UTSGRunSummary.__add__: the fields of the result.
SummaryAdd(a, b) ==
    [tests |-> a.tests \o b.tests,
     num_tests_available |-> a.num_tests_available + b.num_tests_available,
     num_tests_ran |-> a.num_tests_ran + b.num_tests_ran,
     num_tests_passed |-> a.num_tests_passed + b.num_tests_passed,
     num_tests_failed |-> a.num_tests_failed + b.num_tests_failed,
     points_available |-> a.points_available + b.points_available,
     points_earned |-> a.points_earned + b.points_earned]

\* ------------------------------------- UTSGTestCaseInfo.as_prairielearn_json_dict
RequiredKeys == {"name", "max_points", "points"}
OptionalKeys == {"description", "message", "output", "images"}

FieldOf(test, k) ==
    CASE k = "name" -> test.name
      [] k = "max_points" -> test.max_points
      [] k = "points" -> test.points
      [] k = "description" -> test.description
      [] k = "message" -> test.message
      [] k = "output" -> test.output
      [] k = "images" -> test.images

\* Python truthiness of an optional value of the dictionary: a list is
\* truthy when it is not empty.
FieldIsSet(test, k) ==
    IF k = "images" THEN test.images # <<>> ELSE Truthy(FieldOf(test, k))

as_prairielearn_json_dict_every_key(test) ==
    [k \in RequiredKeys \cup OptionalKeys |-> FieldOf(test, k)]

as_prairielearn_json_dict(test) ==
    [k \in RequiredKeys \cup {o \in OptionalKeys : FieldIsSet(test, o)}
       |-> FieldOf(test, k)]

\* ------------------------------------------------------------------ Init
\* unittest's _Outcome at the start of TestCase.run.
NewOutcome(expecting_failure) ==
    [errors |-> <<>>, success |-> TRUE,
     expecting_failure |-> expecting_failure, expectedFailure |-> FALSE]

\* The dictionary startTestRun installs; message and output are absent keys.
FreshResults ==
    [gradable |-> TRUE, score |-> Zero, tests |-> <<>>, message |-> None,
     output |-> None]

\* UTSGTestResult.__init__ and the discovered, not yet started, test cases.
\* The property getters fill in gradable, score and tests on first read.
Init ==
    /\ utsg_test_case_info = [t \in Tests |-> UTSGTestCaseInit(t)]
    /\ utsg_subtests = [t \in Tests |-> <<>>]
    /\ visible_tests_info = <<>>
    /\ hidden_tests_info = <<>>
    /\ excluded_tests_info = <<>>
    /\ utsg_results = FreshResults
    /\ utsg_score_floor = Zero
    /\ utsg_score_ceiling = One
    /\ scored = FALSE
    /\ shouldStop = FALSE
    /\ pc = "init"
    /\ cur = 0
    /\ open_sub = 0
    /\ outcome = NewOutcome(FALSE)
    /\ runs = 0
    /\ run_ends = 0
    /\ artifact = None
    /\ exception = None
    /\ test_attrs = [message |-> None, output |-> None]
    /\ last_event = "__init__"
    /\ fired = {}
    /\ visible_at_crash = None
    /\ raw_score = None
    /\ explicit = {}
    /\ writes = 0

\* unittest.TestResult.stop(): the value it gives shouldStop.
stop_forgotten == shouldStop

stop == TRUE

\* ---------------------------------------------------------- startTestRun
startTestRun ==
    /\ pc \in {"init", "done"}
    /\ run_ends < MaxRunEnds
    /\ utsg_results' = FreshResults
    /\ runs' = runs + 1
    /\ pc' = "suite"
    /\ last_event' = "startTestRun"
    /\ fired' = {}
    /\ visible_at_crash' = None
    /\ UNCHANGED <<heap_vars, utsg_score_floor, utsg_score_ceiling, scored,
                   shouldStop, cur, open_sub, outcome, run_ends, artifact,
                   exception, test_attrs, raw_score, explicit, writes>>

\* ------------------------------------------------------------- startTest
OutOfRangeOnlyBelow(x) == RatLess(x, Zero)

\* The checks of the utsg_score_floor / utsg_score_ceiling setters.
OutOfRange(x) == RatLess(x, Zero) \/ RatLess(One, x)

startTestKeepsBounds(floor, ceiling, expecting_failure) ==
    /\ pc = "suite"
    /\ ~shouldStop
    /\ Outcomes < MaxOutcomes
    /\ cur' = cur + 1
    /\ last_event' = "startTest"
    /\ utsg_test_case_info' =
           [utsg_test_case_info EXCEPT ![cur + 1].status = "RUNNING"]
    /\ outcome' = NewOutcome(expecting_failure)
    /\ pc' = "call"
    /\ UNCHANGED <<utsg_score_floor, utsg_score_ceiling, exception,
                   utsg_subtests, visible_tests_info, hidden_tests_info,
                   excluded_tests_info, utsg_results, scored, shouldStop,
                   open_sub, runs, run_ends, artifact, test_attrs, fired,
                   visible_at_crash, raw_score, explicit, writes>>

\* TestSuite.run takes the next test unless shouldStop; TestCase.run calls
\* startTest outside its try block, so a setter's UngradableError leaves
\* through TestSuite.run to run_tests.
startTest(floor, ceiling, expecting_failure) ==
    /\ pc = "suite"
    /\ ~shouldStop
    /\ Outcomes < MaxOutcomes
    /\ cur' = cur + 1
    /\ last_event' = "startTest"
    /\ IF OutOfRange(floor)
       THEN /\ exception' = Some("Attempted to set score floor")
            /\ pc' = "raised"
            /\ UNCHANGED <<utsg_score_floor, utsg_score_ceiling,
                           utsg_test_case_info, outcome>>
       ELSE IF OutOfRange(ceiling)
       THEN /\ utsg_score_floor' = floor
            /\ exception' = Some("Attempted to set score floor")
            /\ pc' = "raised"
            /\ UNCHANGED <<utsg_score_ceiling, utsg_test_case_info, outcome>>
       ELSE /\ utsg_score_floor' = floor
            /\ utsg_score_ceiling' = ceiling
            /\ utsg_test_case_info' =
                   [utsg_test_case_info EXCEPT ![cur + 1].status = "RUNNING"]
            /\ outcome' = NewOutcome(expecting_failure)
            /\ pc' = "call"
            /\ UNCHANGED exception
    /\ UNCHANGED <<utsg_subtests, visible_tests_info, hidden_tests_info,
                   excluded_tests_info, utsg_results, scored, shouldStop,
                   open_sub, runs, run_ends, artifact, test_attrs, fired,
                   visible_at_crash, raw_score, explicit, writes>>

\* ------------------------------------------------- test-writer code steps
\* The outcome the running code holds: the open sub-test's, else the test's.
Scope == <<cur, open_sub>>

InBody == pc \in {"call", "test"} /\ open_sub = 0

\* UTSGDecoratorFactory.__call__.wrapper: setattr(info, member, value), then
\* the wrapped function, which is the test method itself or, under stacked
\* decorators, the next wrapper.
wrapper(member_name, member_value, stacked) ==
    /\ pc = "call"
    /\ utsg_test_case_info' =
           [utsg_test_case_info EXCEPT ![cur][member_name] = member_value]
    /\ pc' = IF stacked THEN "call" ELSE "test"
    /\ UNCHANGED <<utsg_subtests, visible_tests_info, hidden_tests_info,
                   excluded_tests_info, recorder_vars, cur, open_sub,
                   outcome, runs, run_ends, artifact, exception, test_attrs,
                   last_event, fired, visible_at_crash, raw_score, explicit, writes>>

\* Test code assigns points, message or output of the outcome it holds.
SetInfoField(member_name, member_value) ==
    /\ \/ InBody
       \/ pc = "sub"
    /\ SetHeap(Update(Heap, Scope,
                      [Deref(Heap, Scope) EXCEPT ![member_name] = member_value]))
    /\ pc' = IF pc = "call" THEN "test" ELSE pc
    /\ explicit' = explicit \cup {<<Scope, member_name>>}
    /\ UNCHANGED <<recorder_vars, cur, open_sub, outcome, runs, run_ends,
                   artifact, exception, test_attrs, last_event, fired,
                   visible_at_crash, raw_score, writes>>

RECURSIVE JoinWith(_, _)
\* sep.join(strs)
JoinWith(sep, strs) ==
    IF strs = <<>> THEN ""
    ELSE IF Len(strs) = 1 THEN strs[1]
    ELSE strs[1] \o sep \o JoinWith(sep, Tail(strs))

\* The description of a sub-test: lines 211 and 219-224.  params is the
\* sequence of <<name, value>> keyword arguments.
SubTestDescription(parent, description, include_params_in_description, params) ==
    LET base == IF description # None THEN description ELSE parent.description
        shown == SelectSeq(params, LAMBDA kv : kv[1] # "msg")
        param_description ==
            JoinWith("  \n", [i \in 1..Len(shown) |->
                                 shown[i][1] \o " = " \o shown[i][2]])
    IN  IF include_params_in_description
        THEN Some((IF base = None THEN "" ELSE base[1]) \o "\n"
                  \o param_description)
        ELSE base

SubTestNameCountsFromZero(parent, k, name) ==
    IF name # None THEN name[1]
    ELSE parent.name \o " subtest " \o ToString(k - 1)

\* Line 210: the name of the k-th sub-test created on parent.
SubTestName(parent, k, name) ==
    IF name # None THEN name[1]
    ELSE parent.name \o " subtest " \o ToString(k)

\* The UTSGTestCaseInfo add_graded_subTest builds (lines 209-224).
SubTestInfo(parent, k, name, description, max_points, points_lost_on_failure, include_in_results, hidden, include_params_in_description, params) ==
    UTSGTestCaseInfo(
        SubTestName(parent, k, name),
        SubTestDescription(parent, description,
                           include_params_in_description, params),
        IF max_points # None THEN max_points[1] ELSE parent.max_points,
        IF points_lost_on_failure # None THEN points_lost_on_failure[1]
        ELSE parent.points_lost_on_failure,
        include_in_results,
        IF hidden # None THEN hidden[1] ELSE parent.hidden)

\* UTSGTestCase.add_graded_subTest
add_graded_subTest(name, description, max_points, points_lost_on_failure, include_in_results, hidden, include_params_in_description, params) ==
    /\ InBody
    /\ Outcomes < MaxOutcomes
    /\ utsg_subtests' =
           [utsg_subtests EXCEPT ![cur] =
              Append(@, SubTestInfo(utsg_test_case_info[cur], Len(@) + 1,
                                    name, description, max_points,
                                    points_lost_on_failure,
                                    include_in_results, hidden,
                                    include_params_in_description, params))]
    /\ pc' = "test"
    /\ UNCHANGED <<utsg_test_case_info, visible_tests_info,
                   hidden_tests_info, excluded_tests_info, recorder_vars,
                   cur, open_sub, outcome, runs, run_ends, artifact,
                   exception, test_attrs, last_event, fired,
                   visible_at_crash, raw_score, explicit, writes>>

\* UTSGSubTest.__enter__, for the sub-test created last.
__enter__ ==
    /\ InBody
    /\ Len(utsg_subtests[cur]) > 0
    /\ utsg_subtests[cur][Len(utsg_subtests[cur])].status = "SCHEDULED"
    /\ open_sub' = Len(utsg_subtests[cur])
    /\ utsg_subtests' =
           [utsg_subtests EXCEPT ![cur][Len(utsg_subtests[cur])].status =
              "RUNNING"]
    /\ pc' = "sub"
    /\ UNCHANGED <<utsg_test_case_info, visible_tests_info,
                   hidden_tests_info, excluded_tests_info, recorder_vars,
                   cur, outcome, runs, run_ends, artifact, exception,
                   test_attrs, last_event, fired, visible_at_crash,
                   raw_score, explicit, writes>>

\* The status UTSGSubTest.__exit__ assigns (lines 582-587).
ExitStatus(exception_type) ==
    IF exception_type = None THEN "PASSED"
    ELSE IF exception_type[1] = AssertionError THEN "FAILED"
    ELSE "CRASHED"

\* UTSGSubTest.__exit__.  Line 581 first leaves unittest's subTest context:
\* its testPartExecutor records (sub-test, exc_info) in outcome.errors, or,
\* in a test expected to fail, records the expected failure and raises
\* _ShouldStop, which leaves __exit__ before the status is assigned and ends
\* the test method.  A CRASHED sub-test does not suppress the exception,
\* which then ends the test method and is recorded for the test itself.
__exit__(exception_type) ==
    /\ pc = "sub"
    /\ open_sub' = 0
    /\ IF exception_type # None /\ outcome.expecting_failure
       THEN /\ outcome' = [outcome EXCEPT !.expectedFailure = TRUE]
            /\ pc' = "feed"
            /\ UNCHANGED utsg_subtests
       ELSE /\ utsg_subtests' =
                   [utsg_subtests EXCEPT ![cur][open_sub].status =
                      ExitStatus(exception_type)]
            /\ IF ExitStatus(exception_type) = "CRASHED"
               THEN /\ outcome' =
                          [outcome EXCEPT
                             !.errors = @ \o <<[sub |-> open_sub,
                                                exc |-> exception_type],
                                               [sub |-> 0,
                                                exc |-> exception_type]>>,
                             !.success = FALSE]
                    /\ pc' = "feed"
               ELSE /\ outcome' =
                          [outcome EXCEPT
                             !.errors = Append(@, [sub |-> open_sub,
                                                   exc |-> exception_type]),
                             !.success = @ /\ exception_type = None]
                    /\ pc' = "test"
    /\ UNCHANGED <<utsg_test_case_info, visible_tests_info,
                   hidden_tests_info, excluded_tests_info, recorder_vars,
                   cur, runs, run_ends, artifact, exception, test_attrs,
                   last_event, fired, visible_at_crash, raw_score, explicit, writes>>

\* The test method returns or raises outside any sub-test scope
\* (unittest's testPartExecutor around the test method).
TestMethodEnds(exception_type) ==
    /\ InBody
    /\ outcome' =
           IF exception_type = None THEN outcome
           ELSE IF exception_type = Some(SkipTest)
           THEN [outcome EXCEPT !.success = FALSE]
           ELSE IF outcome.expecting_failure
           THEN [outcome EXCEPT !.expectedFailure = TRUE]
           ELSE [outcome EXCEPT
                   !.errors = Append(@, [sub |-> 0, exc |-> exception_type]),
                   !.success = FALSE]
    /\ pc' = "feed"
    /\ UNCHANGED <<heap_vars, recorder_vars, cur, open_sub, runs, run_ends,
                   artifact, exception, test_attrs, last_event, fired,
                   visible_at_crash, raw_score, explicit, writes>>

\* ------------------------------------------- recorder: events of one test
\* TestCase._feedErrorsToResult hands the recorded entries over in order.
Feeding == pc = "feed" /\ outcome.errors # <<>>
Fed == pc = "feed" /\ outcome.errors = <<>>
Cur == <<cur, 0>>

Pop == outcome' = [outcome EXCEPT !.errors = Tail(@)]

\* UTSGTestResult.addSubTest
addSubTest ==
    /\ Feeding
    /\ Head(outcome.errors).sub # 0
    /\ IF Head(outcome.errors).exc # None
          /\ utsg_test_case_info[cur].status # "FAILED"
       THEN SetHeap(_log_failure(Heap, Cur))
       ELSE UNCHANGED heap_vars
    /\ Pop
    /\ last_event' = "addSubTest"
    /\ UNCHANGED <<recorder_vars, pc, cur, open_sub, runs, run_ends,
                   artifact, exception, test_attrs, fired, visible_at_crash,
                   raw_score, explicit, writes>>

\* UTSGTestResult.addFailure
addFailure ==
    /\ Feeding
    /\ Head(outcome.errors).sub = 0
    /\ Head(outcome.errors).exc = Some(AssertionError)
    /\ SetHeap(_log_failure(Heap, Cur))
    /\ Pop
    /\ last_event' = "addFailure"
    /\ UNCHANGED <<recorder_vars, pc, cur, open_sub, runs, run_ends,
                   artifact, exception, test_attrs, fired, visible_at_crash,
                   raw_score, explicit, writes>>

\* crash_template.format(name=..., reason=..., extra_info=...)
crash_template(name, reason, extra_info) ==
    name \o " CRASHED for the following reason\n" \o reason \o extra_info

\* Lines 288-293: the reason text of an exception.
Reason(exception_type) ==
    IF exception_type = UngradableError
    THEN "Your submission is ungradable for some reason.\n"
    ELSE "An error of type " \o exception_type \o " occurred when testing.\n"

ExtraInfoDropped(output) == ""

\* Lines 310-312, 316-320, 326-328: the earlier output, kept after a separator.
ExtraInfo(output) ==
    IF Truthy(output)
    THEN "\n\n--------Original Output--------\n" \o output[1]
    ELSE ""

CulpritIsTheTest(h, t) == <<t, 0>>

\* Lines 303-309: the test itself, or its first CRASHED sub-test.
Culprit(h, t) ==
    LET crashed == {k \in 1..Len(h.subs[t]) : h.subs[t][k].status = "CRASHED"}
    IN  IF crashed = {} THEN <<t, 0>>
        ELSE <<t, CHOOSE k \in crashed : \A j \in crashed : k <= j>>

\* Lines 300-315: what addError does to the outcomes of test t.
CrashHeap(h, t, exception_type) ==
    LET h1 == Update(h, <<t, 0>>, [Deref(h, <<t, 0>>) EXCEPT !.status = "CRASHED"])
        crashed_test_info == Culprit(h1, t)
        info == Deref(h1, crashed_test_info)
    IN  Update(h1, crashed_test_info,
               [info EXCEPT !.output =
                  Some(crash_template("This test", Reason(exception_type),
                                      ExtraInfo(info.output)))])

CrashResultsNamedThisTest(name, exception_type) ==
    [utsg_results EXCEPT
       !.gradable = FALSE,
       !.score = Zero,
       !.output = Some(crash_template("This test", Reason(exception_type),
                                      ExtraInfo(utsg_results.output)))]

CrashResultsStillGradable(name, exception_type) ==
    [utsg_results EXCEPT
       !.score = Zero,
       !.output = Some(crash_template(name, Reason(exception_type),
                                      ExtraInfo(utsg_results.output)))]

\* Lines 282-284 and 316-329: what addError does to utsg_results; name is
\* the culprit's name, or "" for an object without utsg_test_case_info.
CrashResults(name, exception_type) ==
    [utsg_results EXCEPT
       !.gradable = FALSE,
       !.score = Zero,
       !.output = Some(crash_template(name, Reason(exception_type),
                                      ExtraInfo(utsg_results.output)))]

NoteCrash ==
    /\ fired' = fired \cup {"addError"}
    /\ visible_at_crash' =
           IF visible_at_crash # None THEN visible_at_crash
           ELSE Some([i \in 1..Len(visible_tests_info) |->
                        <<visible_tests_info[i],
                          Deref(Heap, visible_tests_info[i]).points>>])

\* UTSGTestResult.addError for a test case
addError ==
    /\ Feeding
    /\ Head(outcome.errors).sub = 0
    /\ Head(outcome.errors).exc \notin {None, Some(AssertionError)}
    /\ LET exception_type == Head(outcome.errors).exc[1]
           h == CrashHeap(Heap, cur, exception_type)
       IN  /\ SetHeap(h)
           /\ utsg_results' =
                  CrashResults(Deref(h, Culprit(h, cur)).name, exception_type)
    /\ scored' = TRUE
    /\ shouldStop' = stop
    /\ Pop
    /\ last_event' = "addError"
    /\ NoteCrash
    /\ UNCHANGED <<utsg_score_floor, utsg_score_ceiling, pc, cur, open_sub,
                   runs, run_ends, artifact, exception, test_attrs,
                   raw_score, explicit, writes>>

\* UTSGTestResult.addError for an object without utsg_test_case_info:
\* TestSuite._handleClassSetUp reports a setUpClass that raised (as
\* UTSGTestCase.setUpClass does through run_program) with an _ErrorHolder.
addErrorNoInfo(exception_type) ==
    /\ pc = "suite"
    /\ ~shouldStop
    /\ Outcomes < MaxOutcomes
    /\ utsg_results' = CrashResults("", exception_type)
    /\ scored' = TRUE
    /\ shouldStop' = stop
    /\ last_event' = "addError"
    /\ NoteCrash
    /\ UNCHANGED <<heap_vars, utsg_score_floor, utsg_score_ceiling, pc, cur,
                   open_sub, outcome, runs, run_ends, artifact, exception,
                   test_attrs, raw_score, explicit, writes>>

\* UTSGTestResult.addSuccess
addSuccess ==
    /\ Fed
    /\ outcome.success
    /\ ~outcome.expecting_failure
    /\ SetHeap(_log_success(Heap, Cur))
    /\ pc' = "stopTest"
    /\ last_event' = "addSuccess"
    /\ UNCHANGED <<recorder_vars, cur, open_sub, outcome, runs, run_ends,
                   artifact, exception, test_attrs, fired, visible_at_crash,
                   raw_score, explicit, writes>>

\* UTSGTestResult.addExpectedFailure
addExpectedFailure ==
    /\ Fed
    /\ outcome.success
    /\ outcome.expecting_failure
    /\ outcome.expectedFailure
    /\ pc' = "stopTest"
    /\ last_event' = "addExpectedFailure"
    /\ UNCHANGED <<heap_vars, recorder_vars, cur, open_sub, outcome, runs,
                   run_ends, artifact, exception, test_attrs, fired,
                   visible_at_crash, raw_score, explicit, writes>>

\* UTSGTestResult.addUnexpectedSuccess
addUnexpectedSuccess ==
    /\ Fed
    /\ outcome.success
    /\ outcome.expecting_failure
    /\ ~outcome.expectedFailure
    /\ utsg_results' =
           [utsg_results EXCEPT
              !.gradable = FALSE,
              !.message = Some(utsg_test_case_info[cur].name \o
                               " passed when it was marked as expecting to fail.")]
    /\ shouldStop' = stop
    /\ pc' = "stopTest"
    /\ last_event' = "addUnexpectedSuccess"
    /\ fired' = fired \cup {"addUnexpectedSuccess"}
    /\ UNCHANGED <<heap_vars, utsg_score_floor, utsg_score_ceiling, scored,
                   cur, open_sub, outcome, runs, run_ends, artifact,
                   exception, test_attrs, visible_at_crash, raw_score, explicit, writes>>

RECURSIVE LogEverySubTest(_, _, _)
LogEverySubTest(h, t, k) ==
    IF k > Len(h.subs[t]) THEN h
    ELSE LET status == h.subs[t][k].status
         IN  LogEverySubTest(
                 IF status \in {"FAILED", "CRASHED"}
                 THEN _log_failure(h, <<t, k>>)
                 ELSE _log_success(h, <<t, k>>),
                 t, k + 1)

RECURSIVE LogSubTestsBackwards(_, _, _)
LogSubTestsBackwards(h, t, k) ==
    IF k > Len(h.subs[t]) THEN h
    ELSE LET rest == LogSubTestsBackwards(h, t, k + 1)
             status == rest.subs[t][k].status
         IN  IF status = "PASSED" THEN _log_success(rest, <<t, k>>)
             ELSE IF status \in {"FAILED", "CRASHED"}
                  THEN _log_failure(rest, <<t, k>>)
                  ELSE rest

RECURSIVE LogSubTests(_, _, _)
\* The loop of stopTest (lines 254-264) from sub-test k on.
LogSubTests(h, t, k) ==
    IF k > Len(h.subs[t]) THEN h
    ELSE LET status == h.subs[t][k].status
         IN  LogSubTests(
                 IF status = "PASSED" THEN _log_success(h, <<t, k>>)
                 ELSE IF status \in {"FAILED", "CRASHED"}
                      THEN _log_failure(h, <<t, k>>)
                      ELSE h,
                 t, k + 1)

StopTestHeapSubTestsOnly(h, t) == LogSubTests(h, t, 1)

\* Lines 254-270: what stopTest does to the outcomes of test t.
StopTestHeap(h, t) ==
    LET h1 == LogSubTests(h, t, 1)
    IN  IF h1.tci[t].status = "RUNNING" THEN _log_success(h1, <<t, 0>>)
        ELSE h1

\* UTSGTestResult.stopTest; TestCase.run calls it in its finally clause and
\* then drops its _Outcome.
stopTest ==
    /\ \/ pc = "stopTest"
       \/ Fed /\ ~outcome.success
    /\ utsg_results' =
           [utsg_results EXCEPT
              !.message = IF Truthy(test_attrs.message)
                          THEN test_attrs.message ELSE @,
              !.output = IF Truthy(test_attrs.output)
                         THEN test_attrs.output ELSE @]
    /\ SetHeap(StopTestHeap(Heap, cur))
    /\ outcome' = NewOutcome(FALSE)
    /\ pc' = "suite"
    /\ last_event' = "stopTest"
    /\ UNCHANGED <<utsg_score_floor, utsg_score_ceiling, scored, shouldStop,
                   cur, open_sub, runs, run_ends, artifact, exception,
                   test_attrs, fired, visible_at_crash, raw_score, explicit, writes>>

\* ------------------------------------------------------------ stopTestRun
TotalResultsWithExcluded(h) ==
    SummaryAdd(SummaryAdd(UTSGRunSummary(h, h.hidden),
                          UTSGRunSummary(h, h.visible)),
               UTSGRunSummary(h, h.excluded))

\* Line 212: hidden_results + visible_results.
TotalResults(h) ==
    SummaryAdd(UTSGRunSummary(h, h.hidden), UTSGRunSummary(h, h.visible))

\* Lines 216-217.
RawScore(h) ==
    IF TotalResults(h).points_available > 0
    THEN Rat(TotalResults(h).points_earned, TotalResults(h).points_available)
    ELSE Zero

ClampToCeilingOnly(score) == PyMin(utsg_score_ceiling, score)

ClampToFloorOnly(score) == PyMax(utsg_score_floor, score)

\* Lines 218-219.
Clamp(score) == PyMin(utsg_score_ceiling, PyMax(utsg_score_floor, score))

ScoreAtRunEndAlwaysComputed(h) == Clamp(RawScore(h))

ScoreAtRunEndAsPercentage(h) ==
    IF ~scored
    THEN Rat(100 * Clamp(RawScore(h)).n, Clamp(RawScore(h)).d)
    ELSE utsg_results.score

\* Lines 215-220: self.score when the scoring step is over.
ScoreAtRunEnd(h) ==
    IF ~scored THEN Clamp(RawScore(h)) ELSE utsg_results.score

RecordedTestsOnlyIfGradable(h) ==
    IF utsg_results.gradable
    THEN [i \in 1..Len(h.visible) |->
            as_prairielearn_json_dict(Deref(h, h.visible[i]))]
    ELSE <<>>

\* Line 223.
RecordedTests(h) ==
    [i \in 1..Len(h.visible) |->
       as_prairielearn_json_dict(Deref(h, h.visible[i]))]

\* The rendered final_results.jinja.txt; the template is not part of the
\* sources, its text is opaque here.
final_results == "final_results\n"

\* Line 232.
MessageAtRunEnd ==
    IF utsg_results.message # None
    THEN Some(final_results \o utsg_results.message[1])
    ELSE Some("")

FloorAboveCeilingUnchecked == FALSE

\* Line 206: self.utsg_score_floor > self.utsg_score_ceiling
FloorAboveCeiling == RatLess(utsg_score_ceiling, utsg_score_floor)

\* UTSGTestResult.stopTestRun.  UTSGRunSummary keeps the list it is given
\* and __add__ extends the list of its shallow copy, which is the
\* recorder's hidden_tests_info itself.  written tells whether open() and
\* json.dump of lines 234-235 succeed; when they raise, the OSError leaves
\* stopTestRun with everything else done.
stopTestRunWriting(written) ==
    /\ pc \in {"suite", "done"}
    /\ run_ends < MaxRunEnds
    /\ run_ends' = run_ends + 1
    /\ last_event' = "stopTestRun"
    /\ IF FloorAboveCeiling
       THEN /\ exception' = Some("score floor set above score score ceiling.")
            /\ pc' = "raised"
            /\ UNCHANGED <<utsg_results, scored, hidden_tests_info, artifact,
                           raw_score, writes>>
       ELSE /\ hidden_tests_info' = TotalResults(Heap).tests
            /\ utsg_results' =
                   [utsg_results EXCEPT
                      !.score = ScoreAtRunEnd(Heap),
                      !.tests = RecordedTests(Heap),
                      !.message = MessageAtRunEnd]
            /\ raw_score' = IF ~scored THEN Some(RawScore(Heap)) ELSE raw_score
            /\ scored' = TRUE
            /\ writes' = writes + 1
            /\ IF written
               THEN /\ artifact' = Some(utsg_results')
                    /\ pc' = "done"
                    /\ UNCHANGED exception
               ELSE /\ exception' = Some(OSError)
                    /\ pc' = "raised Exception"
                    /\ UNCHANGED artifact
    /\ UNCHANGED <<utsg_test_case_info, utsg_subtests, visible_tests_info,
                   excluded_tests_info, utsg_score_floor, utsg_score_ceiling,
                   shouldStop, cur, open_sub, outcome, runs, test_attrs,
                   fired, visible_at_crash, explicit>>

\* UTSGTestResult.stopTestRun when results.json can be written.
stopTestRun == stopTestRunWriting(TRUE)

\* --------------------------------------------------------------- run_tests
UngradableResultsStillGradable ==
    [utsg_results EXCEPT !.output = exception, !.score = Zero]

\* Lines 27-29: what the handler does to utsg_results.
UngradableResults ==
    [utsg_results EXCEPT
       !.output = exception, !.gradable = FALSE, !.score = Zero]

\* run_tests, lines 24-30: the handler of an UngradableError that left
\* tests.run or stopTestRun.  open() comes first (line 26): when it raises,
\* nothing is assigned and the OSError leaves the handler, which no other
\* except clause of the same try statement catches.
run_tests_exceptWriting(written) ==
    /\ pc = "raised"
    /\ writes' = writes + 1
    /\ IF written
       THEN /\ utsg_results' = UngradableResults
            /\ artifact' = Some(utsg_results')
            /\ exception' = None
            /\ pc' = "aborted"
       ELSE /\ exception' = Some(OSError)
            /\ pc' = "unhandled"
            /\ UNCHANGED <<utsg_results, artifact>>
    /\ UNCHANGED <<heap_vars, utsg_score_floor, utsg_score_ceiling, scored,
                   shouldStop, cur, open_sub, outcome, runs, run_ends,
                   test_attrs, last_event, fired, visible_at_crash,
                   raw_score, explicit>>

\* The handler of an UngradableError when results.json can be written.
run_tests_except == run_tests_exceptWriting(TRUE)

\* traceback.format_exc() of the exception being handled.
format_exc == "Traceback (most recent call last):\n" \o exception[1]

\* Lines 34-36: what the handler of Exception does to utsg_results.
ExceptionResults ==
    [utsg_results EXCEPT
       !.output = Some(format_exc), !.gradable = FALSE, !.score = Zero]

run_tests_except_Exception_swallows(written) ==
    /\ pc = "raised Exception"
    /\ writes' = writes + 1
    /\ utsg_results' = IF written THEN ExceptionResults ELSE utsg_results
    /\ artifact' = IF written THEN Some(utsg_results') ELSE artifact
    /\ exception' = None
    /\ pc' = "aborted"
    /\ UNCHANGED <<heap_vars, utsg_score_floor, utsg_score_ceiling, scored,
                   shouldStop, cur, open_sub, outcome, runs, run_ends,
                   test_attrs, last_event, fired, visible_at_crash,
                   raw_score, explicit>>

\* run_tests, lines 31-37: the handler of any other Exception that left
\* discover, startTestRun, tests.run or stopTestRun.
run_tests_except_Exception(written) ==
    /\ pc = "raised Exception"
    /\ writes' = writes + 1
    /\ IF written
       THEN /\ utsg_results' = ExceptionResults
            /\ artifact' = Some(utsg_results')
            /\ exception' = None
            /\ pc' = "aborted"
       ELSE /\ exception' = Some(OSError)
            /\ pc' = "unhandled"
            /\ UNCHANGED <<utsg_results, artifact>>
    /\ UNCHANGED <<heap_vars, utsg_score_floor, utsg_score_ceiling, scored,
                   shouldStop, cur, open_sub, outcome, runs, run_ends,
                   test_attrs, last_event, fired, visible_at_crash,
                   raw_score, explicit>>

\* run_tests, line 16: the loader raises ImportError when the tests
\* directory cannot be imported.
discover ==
    /\ pc = "init"
    /\ runs = 0
    /\ exception' = Some(ImportError)
    /\ pc' = "raised Exception"
    /\ UNCHANGED <<heap_vars, recorder_vars, cur, open_sub, outcome, runs,
                   run_ends, artifact, test_attrs, last_event, fired,
                   visible_at_crash, raw_score, explicit, writes>>

\* UTSGTestResult.startTest for a test object that is no UTSGTestCase (the
\* loader's _FailedTest for a test module that failed to import): line 238
\* reads test.utsg_score_floor and the AttributeError leaves TestCase.run,
\* which calls startTest outside its try block.
startTestNoInfo ==
    /\ pc = "suite"
    /\ ~shouldStop
    /\ exception' = Some(AttributeError)
    /\ pc' = "raised Exception"
    /\ last_event' = "startTest"
    /\ UNCHANGED <<heap_vars, recorder_vars, cur, open_sub, outcome, runs,
                   run_ends, artifact, test_attrs, fired, visible_at_crash,
                   raw_score, explicit, writes>>

run_tests_finally_without_handler ==
    /\ pc \in {"done", "aborted", "unhandled", "raised Exception"}
    /\ IF artifact = None
       THEN /\ exception' = Some(FileNotFoundError)
            /\ pc' = "propagated"
       ELSE /\ pc' = IF pc = "done" \/ pc = "aborted"
                     THEN "returned" ELSE "propagated"
            /\ UNCHANGED exception
    /\ UNCHANGED <<heap_vars, recorder_vars, cur, open_sub, outcome, runs,
                   run_ends, artifact, test_attrs, last_event, fired,
                   visible_at_crash, raw_score, explicit, writes>>

\* run_tests, lines 38-42: the finally clause reads results.json back; with
\* no file there open() raises FileNotFoundError.  An exception that left a
\* handler goes on to the caller afterwards.
run_tests_finally ==
    /\ pc \in {"done", "aborted", "unhandled"}
    /\ IF artifact = None
       THEN /\ exception' = Some(FileNotFoundError)
            /\ pc' = "propagated"
       ELSE /\ pc' = IF pc = "unhandled" THEN "propagated" ELSE "returned"
            /\ UNCHANGED exception
    /\ UNCHANGED <<heap_vars, recorder_vars, cur, open_sub, outcome, runs,
                   run_ends, artifact, test_attrs, last_event, fired,
                   visible_at_crash, raw_score, explicit, writes>>

\* ------------------------------------------------------------------- Next
\* run_tests calls startTestRun once, before tests.run (line 21).
FirstRun == pc = "init" /\ startTestRun

\* run_tests calls stopTestRun once, when tests.run has returned (line 23).
OnlyRunEnd == pc = "suite" /\ stopTestRun

\* Spec: the protocol of a run under run_tests.  Test methods with and
\* without sub-tests, hidden and excluded outcomes, tests expected to fail,
\* a test that loses points on failure, every way a sub-test scope and a
\* test method can end, a setUpClass that raises; the score bounds stay at
\* their defaults.
Visibility == {<<"include_in_results", FALSE>>, <<"hidden", TRUE>>}
Penalty == {<<"points_lost_on_failure", 4>>}
SubTestHidden == {None, Some(TRUE)}
SubTestExits == {None, Some(AssertionError), Some(RuntimeError)}
MethodEnds == {None, Some(AssertionError), Some(UngradableError)}

Next ==
    \/ FirstRun
    \/ \E ef \in BOOLEAN : startTest(Zero, One, ef)
    \/ \E d \in Visibility \cup Penalty : wrapper(d[1], d[2], FALSE)
    \/ \E include_in_results \in BOOLEAN, hidden \in SubTestHidden :
          add_graded_subTest(None, None, None, None, include_in_results,
                             hidden, FALSE, <<>>)
    \/ __enter__
    \/ \E e \in SubTestExits : __exit__(e)
    \/ \E e \in MethodEnds : TestMethodEnds(e)
    \/ addSubTest
    \/ addFailure
    \/ addError
    \/ addErrorNoInfo(UngradableError)
    \/ addSuccess
    \/ addExpectedFailure
    \/ addUnexpectedSuccess
    \/ stopTest
    \/ OnlyRunEnd

Spec == Init /\ [][Next]_vars

\* SpecScore: the scoring of a run.  Test methods without sub-tests, expected
\* to fail or not, whose
\* max_points, points_lost_on_failure, visibility and points vary, under
\* every kind of score bounds (in range, floor above ceiling, out of
\* range); stopTestRun may be called again on the finished recorder.
Bounds ==
    {<<Zero, One>>, <<Half, Half>>, <<Half, Zero>>, <<Rat(3, 2), One>>,
     <<Zero, Rat(-1, 2)>>}
Decorations ==
    {<<"max_points", 10>>} \cup Penalty \cup Visibility
PointsSet == {<<"points", Some(2)>>}

NextScore ==
    \/ FirstRun
    \/ \E b \in Bounds, ef \in BOOLEAN : startTest(b[1], b[2], ef)
    \/ \E d \in Decorations : wrapper(d[1], d[2], FALSE)
    \/ \E f \in PointsSet : SetInfoField(f[1], f[2])
    \/ \E e \in MethodEnds : TestMethodEnds(e)
    \/ addFailure
    \/ addError
    \/ addErrorNoInfo(UngradableError)
    \/ addSuccess
    \/ addExpectedFailure
    \/ addUnexpectedSuccess
    \/ stopTest
    \/ stopTestRun
    \/ run_tests_except

SpecScore == Init /\ [][NextScore]_vars

\* SpecFields: the fields of the outcomes of one test method and its
\* sub-tests.  The test is decorated (max_points alone or under one more
\* decorator), expected to fail or not; its code assigns points, message
\* and output of the outcome it holds, and creates sub-tests with default
\* arguments, with an explicit name, or with explicit overrides.
\* Most assignments test code makes to outcome fields in one run.
MaxAssignments == 1

FieldDecorations ==
    {<<"points_lost_on_failure", 4>>, <<"hidden", TRUE>>,
     <<"include_in_results", FALSE>>, <<"description", Some("D")>>}
Assignments ==
    {<<"points", Some(2)>>, <<"message", Some("M")>>,
     <<"output", Some("partial log")>>}
\* <<name, max_points, include_in_results, hidden, include_params_in_description>>
SubTestArguments ==
    {<<None, None, TRUE, None, TRUE>>,
     <<Some("X"), None, TRUE, None, TRUE>>,
     <<None, Some(0), TRUE, Some(FALSE), FALSE>>}

NextFields ==
    \/ FirstRun
    \/ \E ef \in BOOLEAN : cur = 0 /\ startTest(Zero, One, ef)
    \/ wrapper("max_points", 10, TRUE)
    \/ \E d \in FieldDecorations : wrapper(d[1], d[2], FALSE)
    \/ \E f \in Assignments :
          Cardinality(explicit) < MaxAssignments /\ SetInfoField(f[1], f[2])
    \/ \E a \in SubTestArguments :
          add_graded_subTest(a[1], None, a[2], None, a[3], a[4], a[5], <<>>)
    \/ __enter__
    \/ \E e \in SubTestExits : __exit__(e)
    \/ \E e \in MethodEnds : TestMethodEnds(e)
    \/ addSubTest
    \/ addFailure
    \/ addError
    \/ addSuccess
    \/ addExpectedFailure
    \/ addUnexpectedSuccess
    \/ stopTest
    \/ OnlyRunEnd

SpecFields == Init /\ [][NextFields]_vars

\* SpecReuse: one recorder used for a second run.  Test methods without
\* sub-tests pass or fail, stopTestRun ends the run, and startTestRun is
\* called again on the recorder that holds the outcomes of the first run.
ReuseMethodEnds == {None, Some(AssertionError)}

NextReuse ==
    \/ startTestRun
    \/ startTest(Zero, One, FALSE)
    \/ wrapper("hidden", TRUE, FALSE)
    \/ \E e \in ReuseMethodEnds : TestMethodEnds(e)
    \/ addFailure
    \/ addSuccess
    \/ stopTest
    \/ stopTestRun

SpecReuse == Init /\ [][NextReuse]_vars

\* SpecRun: run_tests from discovery to its finally clause.  The tests
\* directory may fail to import, a test object may be no UTSGTestCase, test
\* methods pass, fail, crash, are skipped or are expected to fail, the
\* score bounds may be inconsistent, and each attempt to write
\* results.json succeeds or fails with an OSError.
RunBounds == {<<Zero, One>>, <<Half, Zero>>}
RunMethodEnds ==
    {None, Some(AssertionError), Some(RuntimeError), Some(SkipTest)}

NextRun ==
    \/ discover
    \/ FirstRun
    \/ \E b \in RunBounds, ef \in BOOLEAN : startTest(b[1], b[2], ef)
    \/ startTestNoInfo
    \/ \E e \in RunMethodEnds : TestMethodEnds(e)
    \/ addFailure
    \/ addError
    \/ addSuccess
    \/ addExpectedFailure
    \/ addUnexpectedSuccess
    \/ stopTest
    \/ \E written \in BOOLEAN : pc = "suite" /\ stopTestRunWriting(written)
    \/ \E written \in BOOLEAN : run_tests_exceptWriting(written)
    \/ \E written \in BOOLEAN : run_tests_except_Exception(written)
    \/ run_tests_finally

SpecRun == Init /\ [][NextRun]_vars

\* run_tests is one sequential call: whatever step comes next is taken, so
\* the run goes on until run_tests returns or raises.
FairSpecRun == SpecRun /\ WF_vars(NextRun)

\* SpecRecords: the records of the tests list.  Up to two test methods
\* without sub-tests, decorated with a description, images or hidden, whose
\* code assigns an empty or a non-empty message or output.
MaxRecords == 2
RecordDecorations ==
    {<<"description", Some("D")>>, <<"hidden", TRUE>>,
     <<"images", <<[label |-> "plot", url |-> "plot.png"]>>>>}
RecordAssignments ==
    {<<"message", Some("")>>, <<"message", Some("M")>>,
     <<"output", Some("log")>>}

NextRecords ==
    \/ FirstRun
    \/ cur < MaxRecords /\ startTest(Zero, One, FALSE)
    \/ \E d \in RecordDecorations, stacked \in BOOLEAN :
          wrapper(d[1], d[2], stacked)
    \/ \E f \in RecordAssignments : SetInfoField(f[1], f[2])
    \/ \E e \in ReuseMethodEnds : TestMethodEnds(e)
    \/ addFailure
    \/ addSuccess
    \/ stopTest
    \/ OnlyRunEnd

SpecRecords == Init /\ [][NextRecords]_vars

\* SpecQuiet: test methods none of which returns normally.  Each is
\* skipped, fails an assertion or raises another exception, and is expected
\* to fail or not; so a test is PASSED here only if no success, failure or
\* error event was delivered for it.
QuietMethodEnds ==
    {Some(SkipTest), Some(AssertionError), Some(RuntimeError)}

NextQuiet ==
    \/ FirstRun
    \/ \E ef \in BOOLEAN : startTest(Zero, One, ef)
    \/ \E d \in Decorations : wrapper(d[1], d[2], FALSE)
    \/ \E e \in QuietMethodEnds : TestMethodEnds(e)
    \/ addFailure
    \/ addError
    \/ addExpectedFailure
    \/ stopTest
    \/ OnlyRunEnd

SpecQuiet == Init /\ [][NextQuiet]_vars

\* ============================================================ properties
\* Every outcome object that exists: the started tests and their sub-tests.
Refs ==
    {<<t, 0>> : t \in 1..cur}
        \cup {r \in Tests \X Tests : r[1] <= cur /\ r[2] <= Len(utsg_subtests[r[1]])}

Filed == visible_tests_info \o hidden_tests_info \o excluded_tests_info

IsFiled(ref) == \E i \in 1..Len(Filed) : Filed[i] = ref

\* The status of the outcome ref after the step.
StatusAfter(ref) ==
    IF ref[2] = 0 THEN utsg_test_case_info'[ref[1]].status
    ELSE utsg_subtests'[ref[1]][ref[2]].status

\* C1: an outcome whose status is PASSED, FAILED or CRASHED never changes
\* status again; a status only moves SCHEDULED -> RUNNING -> terminal.
C1_StatusOnlyMovesForward ==
    [][\A ref \in Refs :
         LET before == Deref(Heap, ref).status
             after == StatusAfter(ref)
         IN  /\ before \in ran => after = before
             /\ before = "RUNNING" => after \in ran \cup {"RUNNING"}
             /\ before = "SCHEDULED" => after \in {"SCHEDULED", "RUNNING"}]_vars

\* C2: once addError was delivered, for a test or for an object without
\* outcome info, gradable is false, the score is 0 and scored is true, in
\* every later state of the run, and a results.json written after it holds
\* score 0 and gradable false, whatever the floor and the points earned.
C2_CrashZeroesScore ==
    "addError" \in fired =>
        /\ ~utsg_results.gradable
        /\ utsg_results.score = Zero
        /\ scored
        /\ artifact # None =>
              artifact[1].score = Zero /\ ~artifact[1].gradable

\* A run that crashed under a floor of 1/2 after a test had earned points,
\* and was published by stopTestRun.
C2_Witness ==
    /\ "addError" \in fired
    /\ last_event = "stopTestRun"
    /\ pc = "done"
    /\ utsg_score_floor = Half
    /\ \E i \in 1..Len(visible_tests_info) :
          /\ Deref(Heap, visible_tests_info[i]).status = "PASSED"
          /\ Deref(Heap, visible_tests_info[i]).points = Some(2)

\* C3: once addError or addUnexpectedSuccess was delivered the stop flag is
\* set and stays set, no startTest is delivered any more, and the only
\* events after the halt are the stopTest of the test in flight and
\* stopTestRun.
C3_HaltIsFinal ==
    [][/\ fired' # {} => shouldStop'
       /\ shouldStop =>
             /\ shouldStop'
             /\ cur' = cur
             /\ last_event' \in {last_event, "stopTest", "stopTestRun"}]_vars

\* A halted run that ended while the loader still had a test to start.
C3_Witness ==
    /\ fired # {}
    /\ shouldStop
    /\ pc = "done"
    /\ cur >= 1
    /\ Outcomes < MaxOutcomes

\* C4: every outcome that was in the visible partition when addError was
\* delivered is still there, at the same place and with the same points, in
\* every later state, and when stopTestRun has written results.json its
\* record is in the tests list.
C4_CrashKeepsVisible ==
    visible_at_crash # None =>
        \A i \in 1..Len(visible_at_crash[1]) :
            /\ i <= Len(visible_tests_info)
            /\ visible_tests_info[i] = visible_at_crash[1][i][1]
            /\ Deref(Heap, visible_tests_info[i]).points = visible_at_crash[1][i][2]
            /\ pc = "done" =>
                  /\ i <= Len(artifact[1].tests)
                  /\ artifact[1].tests[i]["name"] =
                         Deref(Heap, visible_at_crash[1][i][1]).name
                  /\ artifact[1].tests[i]["points"] = visible_at_crash[1][i][2]

\* A finished run in which a test crashed after an earlier outcome had been
\* filed as visible.
C4_Witness ==
    /\ visible_at_crash # None
    /\ Len(visible_at_crash[1]) >= 1
    /\ pc = "done"
    /\ artifact # None

\* C5: addUnexpectedSuccess sets gradable to false and the stop flag and
\* leaves the test RUNNING; the stopTest that follows files the test as
\* PASSED.
C5_UnexpectedSuccess ==
    /\ last_event = "addUnexpectedSuccess" =>
          /\ ~utsg_results.gradable
          /\ shouldStop
          /\ utsg_test_case_info[cur].status = "RUNNING"
          /\ ~IsFiled(Cur)
    /\ ("addUnexpectedSuccess" \in fired
            /\ last_event \in {"stopTest", "stopTestRun"}) =>
          /\ ~utsg_results.gradable
          /\ shouldStop
          /\ utsg_test_case_info[cur].status = "PASSED"
          /\ IsFiled(Cur)

\* The stopTest that follows an unexpected success has been delivered.
C5_Witness ==
    /\ "addUnexpectedSuccess" \in fired
    /\ last_event = "stopTest"
    /\ utsg_test_case_info[cur].status = "PASSED"

\* C6: an unexpected success short-circuits scoring as a crash does:
\* stopTestRun computes no score and results.json holds gradable false with
\* score 0.
C6_UnexpectedSuccessSkipsScoring ==
    ("addUnexpectedSuccess" \in fired /\ pc = "done") =>
        /\ raw_score = None
        /\ ~artifact[1].gradable
        /\ artifact[1].score = Zero

\* C7: the score stopTestRun computes is max(floor, min(ceiling, raw)) for
\* every raw score, negative or above 1 included, when floor <= ceiling, so
\* it lies between floor and ceiling; with floor = ceiling = 1/2 and a raw
\* score of 1/5 it is exactly 1/2.
C7_ScoreIsClamped ==
    (raw_score # None /\ pc = "done") =>
        /\ utsg_results.score =
               PyMax(utsg_score_floor, PyMin(utsg_score_ceiling, raw_score[1]))
        /\ ~RatLess(utsg_results.score, utsg_score_floor)
        /\ ~RatLess(utsg_score_ceiling, utsg_results.score)
        /\ artifact[1].score = utsg_results.score

\* Floor and ceiling 1/2, raw score 1/5 (2 points of 10), published 1/2.
C7_Witness ==
    /\ pc = "done"
    /\ utsg_score_floor = Half
    /\ utsg_score_ceiling = Half
    /\ raw_score = Some(Rat(1, 5))
    /\ utsg_results.score = Half

\* C8: once the recorder is scored, a call of stopTestRun leaves the score
\* as it was.
C8_ScoringRunsOnce ==
    [][(scored /\ run_ends' = run_ends + 1) =>
           utsg_results'.score = utsg_results.score]_vars

\* stopTestRun was called again on a recorder whose first call had computed
\* a score from a hidden and a visible outcome.
C8_Witness ==
    /\ run_ends = 2
    /\ pc = "done"
    /\ raw_score # None
    /\ utsg_results.score \notin {Zero, One}
    /\ \E t \in 1..cur : utsg_test_case_info[t].hidden

\* The points a test contributes to the raw score: only a test that is
\* included in the results and has PASSED or FAILED.
Counted(t) ==
    /\ utsg_test_case_info[t].include_in_results
    /\ utsg_test_case_info[t].status \in completed

EarnedByFlags ==
    SumSeq([t \in 1..cur |->
              IF Counted(t) THEN utsg_test_case_info[t].points[1] ELSE 0])

AvailableByFlags ==
    SumSeq([t \in 1..cur |->
              IF Counted(t) THEN utsg_test_case_info[t].max_points ELSE 0])

\* C9: the raw score is the points earned over the hidden and visible
\* outcomes divided by their max_points, or 0 if that denominator is not
\* positive; excluded outcomes add to neither, hidden outcomes to both.
C9_RawScore ==
    raw_score # None =>
        raw_score[1] = IF AvailableByFlags > 0
                       THEN Rat(EarnedByFlags, AvailableByFlags)
                       ELSE Zero

\* A scored run with a hidden outcome that earned points, an excluded
\* outcome that earned points, and a raw score other than 0.
C9_Witness ==
    /\ raw_score # None
    /\ raw_score[1] # Zero
    /\ \E t \in 1..cur :
          /\ utsg_test_case_info[t].hidden
          /\ utsg_test_case_info[t].include_in_results
          /\ utsg_test_case_info[t].status = "PASSED"
    /\ \E t \in 1..cur :
          /\ ~utsg_test_case_info[t].include_in_results
          /\ utsg_test_case_info[t].status = "PASSED"
          /\ utsg_test_case_info[t].points = Some(2)

\* C10: the tests list of results.json is exactly the visible partition in
\* filing order, and holds no outcome that is hidden or not included in the
\* results.
C10_TestsListIsVisible ==
    (pc = "done" /\ artifact # None) =>
        /\ Len(artifact[1].tests) = Len(visible_tests_info)
        /\ \A i \in 1..Len(visible_tests_info) :
              artifact[1].tests[i]["name"] =
                  Deref(Heap, visible_tests_info[i]).name
        /\ \A ref \in Refs :
              (Deref(Heap, ref).hidden \/ ~Deref(Heap, ref).include_in_results)
                  => \A i \in 1..Len(artifact[1].tests) :
                        artifact[1].tests[i]["name"] # Deref(Heap, ref).name

\* A published run with a visible, a hidden and an excluded outcome filed.
C10_Witness ==
    /\ pc = "done"
    /\ artifact # None
    /\ Len(artifact[1].tests) >= 1
    /\ \E ref \in Refs :
          Deref(Heap, ref).hidden /\ Deref(Heap, ref).include_in_results
              /\ IsFiled(ref)
    /\ \E ref \in Refs : ~Deref(Heap, ref).include_in_results /\ IsFiled(ref)

\* C11: a stopTestRun called with the floor above the ceiling fails with a
\* configuration error before it scores and before it writes results.json:
\* the score, scored, the recorded tests list and the file are as before.
C11_FloorAboveCeilingFails ==
    [][(run_ends' = run_ends + 1
            /\ RatLess(utsg_score_ceiling, utsg_score_floor)) =>
           /\ pc' = "raised"
           /\ exception' # None
           /\ utsg_results' = utsg_results
           /\ scored' = scored
           /\ raw_score' = raw_score
           /\ artifact' = artifact]_vars

\* stopTestRun has failed on floor 1/2 above ceiling 0, with a visible
\* outcome filed whose points a scoring step would have counted.
C11_Witness ==
    /\ pc = "raised"
    /\ last_event = "stopTestRun"
    /\ utsg_score_floor = Half
    /\ utsg_score_ceiling = Zero
    /\ ~scored
    /\ \E i \in 1..Len(visible_tests_info) :
          Deref(Heap, visible_tests_info[i]).points = Some(2)

\* The messages of the configuration errors.
ConfigurationErrors ==
    {Some("Attempted to set score floor"),
     Some("score floor set above score score ceiling.")}

\* C12: a configuration error (floor above ceiling at stopTestRun, a floor
\* or ceiling outside [0,1] at startTest) reaches run_tests, which writes
\* results.json with gradable false, score 0 and the error's message as
\* output; no clamped score is published for that run.
C12_ConfigurationErrorIsUngradable ==
    [][/\ pc' = "raised" => exception' \in ConfigurationErrors
       /\ pc = "raised" =>
             /\ pc' = "aborted"
             /\ artifact' # None
             /\ ~artifact'[1].gradable
             /\ artifact'[1].score = Zero
             /\ artifact'[1].output = exception
       /\ pc = "aborted" => artifact' = artifact]_vars

\* run_tests has published the failure of a stopTestRun whose floor was
\* above its ceiling, after a test had earned points.
C12_Witness ==
    /\ pc = "aborted"
    /\ artifact # None
    /\ artifact[1].output = Some("score floor set above score score ceiling.")
    /\ \E i \in 1..Len(visible_tests_info) :
          Deref(Heap, visible_tests_info[i]).status = "PASSED"

InUnitInterval(x) == ~RatLess(x, Zero) /\ ~RatLess(One, x)

\* C13: the recorder's floor and ceiling lie in [0,1] in every state; a
\* startTest with an out-of-range floor or ceiling fails with an error and
\* leaves the bound it would have set as it was.
C13_BoundsStayInRange ==
    [][/\ InUnitInterval(utsg_score_floor') /\ InUnitInterval(utsg_score_ceiling')
       /\ \A b \in Bounds, ef \in BOOLEAN :
             startTest(b[1], b[2], ef) =>
                 /\ ~InUnitInterval(b[1]) =>
                       /\ pc' = "raised" /\ exception' # None
                       /\ utsg_score_floor' = utsg_score_floor
                       /\ utsg_score_ceiling' = utsg_score_ceiling
                 /\ (InUnitInterval(b[1]) /\ ~InUnitInterval(b[2])) =>
                       /\ pc' = "raised" /\ exception' # None
                       /\ utsg_score_ceiling' = utsg_score_ceiling
                 /\ (InUnitInterval(b[1]) /\ InUnitInterval(b[2])) =>
                       /\ utsg_score_floor' = b[1]
                       /\ utsg_score_ceiling' = b[2]]_vars

\* A startTest was rejected while the recorder held the bounds 1/2 and 1/2
\* of an earlier test, and still holds them.
C13_Witness ==
    /\ pc = "raised"
    /\ last_event = "startTest"
    /\ cur >= 2
    /\ utsg_score_floor = Half
    /\ utsg_score_ceiling = Half

\* C14: the recorder's score, and the score in results.json, lie in [0,1]
\* in every state, whatever the points earned (negative totals, points
\* above max_points), the bounds, crashes and unexpected successes.
C14_ScoreInUnitInterval ==
    /\ InUnitInterval(utsg_results.score)
    /\ artifact # None => InUnitInterval(artifact[1].score)

\* A run halted by an unexpected success whose raw score lay outside [0,1]
\* was published with the clamped score.
C14_Witness ==
    /\ pc = "done"
    /\ raw_score # None
    /\ ~InUnitInterval(raw_score[1])
    /\ artifact[1].score \in {Zero, One}
    /\ "addUnexpectedSuccess" \in fired

\* C15: no outcome occurs more than once in the concatenation of the
\* visible, hidden and excluded partitions, also when a parent test gets a
\* sub-test error through addSubTest and then a failure of its own through
\* addFailure.  Stated here for the states up to the call of stopTestRun.
C15_NoOutcomeFiledTwice ==
    run_ends = 0 =>
        \A i, j \in 1..Len(Filed) : Filed[i] = Filed[j] => i = j

\* The test of outcome ref has had its stopTest.
TestEnded(ref) == ref[1] < cur \/ pc \in {"suite", "done"}

\* C16: every outcome that is PASSED, FAILED or CRASHED when its test's
\* stopTest has returned is in one of the three partitions; in particular a
\* test that crashed is filed.
C16_TerminalOutcomeIsFiled ==
    \A ref \in Refs :
        (TestEnded(ref) /\ Deref(Heap, ref).status \in ran) => IsFiled(ref)

\* The partition the flags of an outcome name.
PartitionOf(info) ==
    IF ~info.include_in_results THEN "excluded"
    ELSE IF info.hidden THEN "hidden" ELSE "visible"

\* The references a step appended to a list.
Appended(old, new) == SubSeq(new, Len(old) + 1, Len(new))

Extends(old, new) == Len(old) <= Len(new) /\ SubSeq(new, 1, Len(old)) = old

\* C17: a filing puts the outcome in the one partition its flags name at
\* that time (excluded if include_in_results is false, whatever hidden is;
\* else hidden if hidden is true; else visible) and leaves the other two
\* partitions as they were.
C17_FiledByFlags ==
    [][run_ends' = run_ends =>
          /\ Extends(visible_tests_info, visible_tests_info')
          /\ Extends(hidden_tests_info, hidden_tests_info')
          /\ Extends(excluded_tests_info, excluded_tests_info')
          /\ \A i \in 1..Len(Appended(visible_tests_info, visible_tests_info')) :
                PartitionOf(Deref(Heap, Appended(visible_tests_info,
                                                 visible_tests_info')[i]))
                    = "visible"
          /\ \A i \in 1..Len(Appended(hidden_tests_info, hidden_tests_info')) :
                PartitionOf(Deref(Heap, Appended(hidden_tests_info,
                                                 hidden_tests_info')[i]))
                    = "hidden"
          /\ \A i \in 1..Len(Appended(excluded_tests_info, excluded_tests_info')) :
                PartitionOf(Deref(Heap, Appended(excluded_tests_info,
                                                 excluded_tests_info')[i]))
                    = "excluded"
          /\ (addSuccess \/ addFailure) =>
                /\ Len(Filed') = Len(Filed) + 1
                /\ \E ref \in Refs :
                      /\ ref = Cur
                      /\ Appended(visible_tests_info, visible_tests_info') =
                             IF PartitionOf(Deref(Heap, ref)) = "visible"
                             THEN <<ref>> ELSE <<>>
                      /\ Appended(hidden_tests_info, hidden_tests_info') =
                             IF PartitionOf(Deref(Heap, ref)) = "hidden"
                             THEN <<ref>> ELSE <<>>
                      /\ Appended(excluded_tests_info, excluded_tests_info') =
                             IF PartitionOf(Deref(Heap, ref)) = "excluded"
                             THEN <<ref>> ELSE <<>>]_vars

\* An outcome that is both hidden and not included in the results has been
\* filed as excluded, next to a hidden and a visible outcome.
C17_Witness ==
    /\ run_ends = 0
    /\ \E i \in 1..Len(excluded_tests_info) :
          /\ Deref(Heap, excluded_tests_info[i]).hidden
          /\ ~Deref(Heap, excluded_tests_info[i]).include_in_results
    /\ hidden_tests_info # <<>>
    /\ visible_tests_info # <<>>

\* The lists the recorder builds summaries over.
Partitions == {visible_tests_info, hidden_tests_info, excluded_tests_info}

\* C18: for summaries A and B, A + B has every numeric field equal to the
\* sum of that field of A and of B, and its outcome list is A's outcomes
\* followed by B's.
C18_CombineAddsFields ==
    \A a, b \in Partitions :
        LET A == UTSGRunSummary(Heap, a)
            B == UTSGRunSummary(Heap, b)
            total == SummaryAdd(A, B)
        IN  /\ total.num_tests_available =
                   A.num_tests_available + B.num_tests_available
            /\ total.num_tests_ran = A.num_tests_ran + B.num_tests_ran
            /\ total.num_tests_passed = A.num_tests_passed + B.num_tests_passed
            /\ total.num_tests_failed = A.num_tests_failed + B.num_tests_failed
            /\ total.points_available = A.points_available + B.points_available
            /\ total.points_earned = A.points_earned + B.points_earned
            /\ total.tests = a \o b

\* stopTestRun has added the summary of a visible partition with a failed
\* outcome that lost points to the summary of a non-empty hidden partition.
C18_Witness ==
    /\ pc = "done"
    /\ Len(hidden_tests_info) > Len(visible_tests_info)
    /\ \E i \in 1..Len(visible_tests_info) :
          /\ Deref(Heap, visible_tests_info[i]).status = "FAILED"
          /\ Deref(Heap, visible_tests_info[i]).points = Some(-4)

\* C19: building and combining summaries has no side effect: when
\* stopTestRun has computed hidden summary + visible summary, the hidden,
\* visible and excluded partitions hold what they held before the call.
C19_SummariesLeavePartitionsAlone ==
    [][run_ends' = run_ends + 1 =>
          /\ hidden_tests_info' = hidden_tests_info
          /\ visible_tests_info' = visible_tests_info
          /\ excluded_tests_info' = excluded_tests_info]_vars

RECURSIVE SeqOfRefs(_)
\* The outcomes of S in some order.
SeqOfRefs(S) ==
    IF S = {} THEN <<>>
    ELSE LET r == CHOOSE x \in S : TRUE
         IN  <<r>> \o SeqOfRefs(S \ {r})

RECURSIVE SumUpTo(_, _)
\* fn[1] + ... + fn[n]
SumUpTo(fn, n) == IF n = 0 THEN 0 ELSE SumUpTo(fn, n - 1) + fn[n]

\* The outcomes a summary can be built over: __post_init__ adds the points
\* of a PASSED or FAILED outcome, which a filing has set; between the exit
\* of a sub-test scope and stopTest they are still None.
Summable == {ref \in Refs : Deref(Heap, ref).status \in completed
                                => Deref(Heap, ref).points # None}

\* The number of outcomes of tests whose status is in statuses.
CountStatus(tests, statuses) ==
    Cardinality({i \in 1..Len(tests) : Deref(Heap, tests[i]).status \in statuses})

\* C20: a summary over an outcome sequence has available = the number of
\* outcomes, ran = the number PASSED, FAILED or CRASHED, passed = the number
\* PASSED, failed = the number FAILED, points_available = the sum of
\* max_points over all outcomes, points_earned = the sum of points over the
\* PASSED and FAILED outcomes only.
C20_SummaryFields ==
    \A tests \in Partitions \cup {SeqOfRefs(Summable)} :
        LET summary == UTSGRunSummary(Heap, tests)
        IN  /\ summary.tests = tests
            /\ summary.num_tests_available = Len(tests)
            /\ summary.num_tests_ran =
                   CountStatus(tests, {"PASSED", "FAILED", "CRASHED"})
            /\ summary.num_tests_passed = CountStatus(tests, {"PASSED"})
            /\ summary.num_tests_failed = CountStatus(tests, {"FAILED"})
            /\ summary.points_available =
                   SumUpTo([i \in 1..Len(tests) |->
                               Deref(Heap, tests[i]).max_points], Len(tests))
            /\ summary.points_earned =
                   SumUpTo([i \in 1..Len(tests) |->
                               IF Deref(Heap, tests[i]).status
                                      \in {"PASSED", "FAILED"}
                               THEN Deref(Heap, tests[i]).points[1]
                               ELSE 0], Len(tests))

\* stopTestRun has summed a visible partition that holds a CRASHED outcome
\* with points, a FAILED outcome that lost points, and an outcome that
\* never ran.
C20_Witness ==
    /\ pc = "done"
    /\ \E i \in 1..Len(visible_tests_info) :
          /\ Deref(Heap, visible_tests_info[i]).status = "CRASHED"
          /\ Deref(Heap, visible_tests_info[i]).points = Some(-4)
    /\ \E i \in 1..Len(visible_tests_info) :
          /\ Deref(Heap, visible_tests_info[i]).status = "FAILED"
          /\ Deref(Heap, visible_tests_info[i]).points = Some(-4)
    /\ \E ref \in Summable : Deref(Heap, ref).status \in {"SCHEDULED", "RUNNING"}

\* Test code has assigned member of outcome ref.
Assigned(ref, member) == <<ref, member>> \in explicit

\* C21: in every state, an outcome that is PASSED and whose points test
\* code never set has points = max_points.
C21_PassedHasMaxPoints ==
    \A ref \in Refs :
        (Deref(Heap, ref).status = "PASSED" /\ ~Assigned(ref, "points")) =>
            Deref(Heap, ref).points = Some(Deref(Heap, ref).max_points)

\* C22: in every state, an outcome that is FAILED and whose points test
\* code never set has points = -points_lost_on_failure.
C22_FailedHasPenalty ==
    \A ref \in Refs :
        (Deref(Heap, ref).status = "FAILED" /\ ~Assigned(ref, "points")) =>
            Deref(Heap, ref).points =
                Some(-Deref(Heap, ref).points_lost_on_failure)

\* The fields of the outcome ref after the step.
InfoAfter(ref) ==
    IF ref[2] = 0 THEN utsg_test_case_info'[ref[1]]
    ELSE utsg_subtests'[ref[1]][ref[2]]

\* The step is not an assignment by test code.
RecorderStep == explicit' = explicit

\* C23: points that test code set stay at that value through _log_success,
\* _log_failure and stopTest's filing of the sub-tests, and no recorder
\* event changes the points of an outcome once they are set, so none
\* changes them after the outcome is filed.
C23_ExplicitPointsWin ==
    [][/\ \A ref \in Refs :
             Assigned(ref, "points") => InfoAfter(ref).points = Some(2)
       /\ RecorderStep =>
             \A ref \in Refs :
                 /\ Deref(Heap, ref).points # None =>
                       InfoAfter(ref).points = Deref(Heap, ref).points
                 /\ IsFiled(ref) => Deref(Heap, ref).points # None]_vars

\* A sub-test whose points test code set to 2 has failed, was filed by
\* stopTest, and the run has ended with its points still 2.
C23_Witness ==
    /\ pc = "done"
    /\ \E ref \in Refs :
          /\ ref[2] # 0
          /\ Assigned(ref, "points")
          /\ Deref(Heap, ref).status = "FAILED"
          /\ Deref(Heap, ref).points = Some(2)
          /\ Deref(Heap, ref).points_lost_on_failure = 4
          /\ IsFiled(ref)

ParentWithPassedAndFailedSubTest ==
    /\ cur = 1
    /\ fired = {}
    /\ explicit = {}
    /\ utsg_test_case_info[1].max_points = 10
    /\ utsg_test_case_info[1].points_lost_on_failure = 4
    /\ utsg_test_case_info[1].include_in_results
    /\ ~utsg_test_case_info[1].hidden
    /\ Len(utsg_subtests[1]) = 2
    /\ \A k \in 1..2 :
          /\ utsg_subtests[1][k].name =
                 utsg_test_case_info[1].name \o " subtest " \o ToString(k)
          /\ utsg_subtests[1][k].max_points = 10
          /\ utsg_subtests[1][k].points_lost_on_failure = 4
          /\ utsg_subtests[1][k].include_in_results
          /\ ~utsg_subtests[1][k].hidden
    /\ utsg_subtests[1][1].status = "PASSED"
    /\ utsg_subtests[1][2].status = "FAILED"
    /\ Len(visible_tests_info) = 3
    /\ excluded_tests_info = <<>>

\* C25 as claimed: in the scenario, sub-test 1 has points 10, sub-test 2 has
\* points -4, and the total stopTestRun computes has points_earned 6 and
\* points_available 20.
C25_TotalOverSubTestsOnly ==
    [][(stopTestRun /\ ParentWithPassedAndFailedSubTest) =>
          /\ utsg_subtests[1][1].points = Some(10)
          /\ utsg_subtests[1][2].points = Some(-4)
          /\ TotalResults(Heap).points_earned = 6
          /\ TotalResults(Heap).points_available = 20]_vars

\* C25, amended: in the scenario, sub-test 1 has points 10, sub-test 2 has
\* points -4, the parent is itself filed as FAILED with points -4, and the
\* total stopTestRun computes has points_earned 2 and points_available 30.
C25_TotalCountsParent ==
    [][(stopTestRun /\ ParentWithPassedAndFailedSubTest) =>
          /\ utsg_subtests[1][1].points = Some(10)
          /\ utsg_subtests[1][2].points = Some(-4)
          /\ utsg_test_case_info[1].status = "FAILED"
          /\ utsg_test_case_info[1].points = Some(-4)
          /\ IsFiled(<<1, 0>>)
          /\ TotalResults(Heap).points_earned = 2
          /\ TotalResults(Heap).points_available = 30]_vars

\* The scenario has run and stopTestRun has scored it 2 points of 30.
C25_Witness ==
    /\ pc = "done"
    /\ ParentWithPassedAndFailedSubTest
    /\ raw_score = Some(Rat(2, 30))

C27_SubTestInheritsFromParent ==
    [][/\ \A a \in SubTestArguments :
             add_graded_subTest(a[1], None, a[2], None, a[3], a[4], a[5], <<>>)
             => LET parent == utsg_test_case_info[cur]
                    sub == utsg_subtests'[cur][Len(utsg_subtests'[cur])]
                IN  /\ sub.description = parent.description
                    /\ sub.max_points =
                           IF a[2] = None THEN parent.max_points ELSE a[2][1]
                    /\ sub.points_lost_on_failure =
                           parent.points_lost_on_failure
                    /\ sub.hidden =
                           IF a[4] = None THEN parent.hidden ELSE a[4][1]
                    /\ sub.include_in_results
       /\ \A ref \in Refs :
             ref[2] # 0 =>
                 /\ InfoAfter(ref).description = Deref(Heap, ref).description
                 /\ InfoAfter(ref).max_points = Deref(Heap, ref).max_points
                 /\ InfoAfter(ref).points_lost_on_failure =
                        Deref(Heap, ref).points_lost_on_failure
                 /\ InfoAfter(ref).hidden = Deref(Heap, ref).hidden
                 /\ InfoAfter(ref).include_in_results =
                        Deref(Heap, ref).include_in_results]_vars

\* C28: when a sub-test scope is left, the sub-test becomes PASSED if no
\* exception occurred, FAILED if an AssertionError occurred, and then the
\* exception is swallowed and the test method goes on; it becomes CRASHED
\* for any other exception, which is not swallowed: it ends the test method
\* and is recorded for the test itself.
C28_StatusAtScopeExit ==
    [][\A e \in SubTestExits :
          __exit__(e) =>
              LET status == utsg_subtests'[cur][open_sub].status
              IN  /\ e = None => status = "PASSED" /\ pc' = "test"
                  /\ e = Some(AssertionError) =>
                        status = "FAILED" /\ pc' = "test"
                  /\ e \notin {None, Some(AssertionError)} =>
                        /\ status = "CRASHED"
                        /\ pc' = "feed"
                        /\ \E i \in 1..Len(outcome'.errors) :
                              outcome'.errors[i] = [sub |-> 0, exc |-> e]]_vars

\* The sub-tests of the running test that are CRASHED.
CrashedSubTests == {k \in 1..Len(utsg_subtests[cur]) : utsg_subtests[cur][k].status = "CRASHED"}

\* The outcome the crash is attributed to: the first CRASHED sub-test of
\* the running test in creation order, or the test itself.
FirstCrashed ==
    IF CrashedSubTests = {} THEN Cur
    ELSE <<cur, CHOOSE k \in CrashedSubTests : \A j \in CrashedSubTests : k <= j>>

\* C29: addError attributes the crash to the first CRASHED sub-test of the
\* running test in creation order, or to the test itself when it has none;
\* that outcome's output becomes the crash diagnostic, followed by the
\* separator and its earlier output when it had one, and no other outcome's
\* output changes.
C29_CulpritGetsDiagnostic ==
    [][addError =>
          LET old == Deref(Heap, FirstCrashed).output
              reason == Reason(Head(outcome.errors).exc[1])
          IN  /\ InfoAfter(FirstCrashed).output =
                     Some(crash_template(
                         "This test", reason,
                         IF old # None /\ old # Some("")
                         THEN "\n\n--------Original Output--------\n"
                                  \o old[1]
                         ELSE ""))
              /\ \A ref \in Refs \ {FirstCrashed} :
                     InfoAfter(ref).output = Deref(Heap, ref).output]_vars

\* addError has been delivered for a test whose second sub-test crashed
\* after its first one failed: the second sub-test holds the diagnostic
\* with its earlier output "partial log", the test and the first sub-test
\* hold no output.
C29_Witness ==
    /\ last_event = "addError"
    /\ Len(utsg_subtests[cur]) = 2
    /\ utsg_subtests[cur][1].status = "FAILED"
    /\ utsg_subtests[cur][2].status = "CRASHED"
    /\ utsg_subtests[cur][1].output = None
    /\ utsg_test_case_info[cur].output = None
    /\ utsg_subtests[cur][2].output =
           Some(crash_template(
               "This test", Reason(RuntimeError),
               "\n\n--------Original Output--------\npartial log"))

\* C30 as claimed: after addError for a test, the output of the outcome the
\* crash is attributed to equals the run-level output.
C30_SameDiagnostic ==
    (last_event = "addError" /\ pc = "feed") =>
        Deref(Heap, FirstCrashed).output = utsg_results.output

\* C30, amended: addError stores the same reason in both places, but the
\* outcome's output is headed "This test" and carries the outcome's earlier
\* output, while the run-level output is headed by the outcome's name and
\* carries the earlier run-level output; the two values differ.
C30_DiagnosticPerPlace ==
    [][addError =>
          LET reason == Reason(Head(outcome.errors).exc[1])
              separator == "\n\n--------Original Output--------\n"
              old == Deref(Heap, FirstCrashed).output
              old_run == utsg_results.output
          IN  /\ InfoAfter(FirstCrashed).output =
                     Some(crash_template(
                         "This test", reason,
                         IF old # None /\ old # Some("")
                         THEN separator \o old[1] ELSE ""))
              /\ utsg_results'.output =
                     Some(crash_template(
                         Deref(Heap, FirstCrashed).name, reason,
                         IF old_run # None /\ old_run # Some("")
                         THEN separator \o old_run[1] ELSE ""))
              /\ InfoAfter(FirstCrashed).output # utsg_results'.output]_vars

\* addError has been delivered for a crashed sub-test named "X": its output
\* is headed "This test", the run-level output is headed "X".
C30_Witness ==
    /\ last_event = "addError"
    /\ pc = "feed"
    /\ Deref(Heap, FirstCrashed).name = "X"
    /\ Deref(Heap, FirstCrashed).output =
           Some(crash_template("This test", Reason(RuntimeError), ""))
    /\ utsg_results.output =
           Some(crash_template("X", Reason(RuntimeError), ""))

\* C31: startTestRun leaves the visible, hidden and excluded partitions
\* empty, gradable true, score 0.0 and the tests list empty, whatever an
\* earlier run on the same recorder has recorded.
C31_RunStartResets ==
    [][startTestRun =>
          /\ visible_tests_info' = <<>>
          /\ hidden_tests_info' = <<>>
          /\ excluded_tests_info' = <<>>
          /\ utsg_results'.gradable
          /\ utsg_results'.score = Zero
          /\ utsg_results'.tests = <<>>]_vars

\* The sub-tests of the running test whose status is PASSED, FAILED or
\* CRASHED, in creation order.
TerminalSubTests ==
    SelectSeq([k \in 1..Len(utsg_subtests[cur]) |-> <<cur, k>>],
              LAMBDA ref : Deref(Heap, ref).status \in ran)

\* The outcomes of refs that the flags put in partition p, in order.
InPartition(refs, p) ==
    SelectSeq(refs, LAMBDA ref : PartitionOf(Deref(Heap, ref)) = p)

\* The sub-tests of one parent occur in tests in creation order.
InCreationOrder(tests) ==
    \A i, j \in 1..Len(tests) :
        (i < j /\ tests[i][1] = tests[j][1] /\ tests[i][2] # 0
               /\ tests[j][2] # 0) => tests[i][2] < tests[j][2]

\* C32: stopTest files the sub-tests of the test that are PASSED, FAILED or
\* CRASHED, in creation order, a PASSED one as PASSED and a FAILED or
\* CRASHED one as FAILED, and after them the test itself as PASSED if its
\* status is still RUNNING; it files nothing else, and in each partition
\* the sub-tests of one parent stand in creation order.
C32_StopTestFilesInOrder ==
    [][stopTest =>
          LET filing ==
                  TerminalSubTests \o
                  (IF utsg_test_case_info[cur].status = "RUNNING"
                   THEN <<Cur>> ELSE <<>>)
          IN  /\ visible_tests_info' =
                     visible_tests_info \o InPartition(filing, "visible")
              /\ hidden_tests_info' =
                     hidden_tests_info \o InPartition(filing, "hidden")
              /\ excluded_tests_info' =
                     excluded_tests_info \o InPartition(filing, "excluded")
              /\ \A i \in 1..Len(filing) :
                     /\ InfoAfter(filing[i]).status =
                            IF Deref(Heap, filing[i]).status
                                   \in {"PASSED", "RUNNING"}
                            THEN "PASSED" ELSE "FAILED"
                     /\ InfoAfter(filing[i]).points # None
              /\ InCreationOrder(visible_tests_info')
              /\ InCreationOrder(hidden_tests_info')
              /\ InCreationOrder(excluded_tests_info')]_vars

\* stopTest has filed two sub-tests of a test expected to fail and then the
\* test itself, which no event had taken out of RUNNING, all as PASSED.
C32_Witness ==
    /\ last_event = "stopTest"
    /\ visible_tests_info = <<<<1, 1>>, <<1, 2>>, <<1, 0>>>>
    /\ \A i \in 1..3 : Deref(Heap, visible_tests_info[i]).status = "PASSED"

C34_NoSecondWrite ==
    [][/\ (pc = "suite" /\ stopTestRunWriting(FALSE)
              /\ exception' = Some(OSError)) => pc' = "unhandled"
       /\ (writes >= 1 /\ artifact = None) => writes' = writes]_vars

\* C34, amended: results.json is written successfully at most once and no
\* attempt follows a successful write; when the write of stopTestRun fails,
\* the handler of Exception in run_tests takes the OSError and makes one
\* second attempt; when the write of a handler fails, the OSError leaves
\* run_tests and no further attempt is made, so there are at most two.
C34_OneRetryByHandler ==
    [][/\ writes' <= 2
       /\ artifact # None => (writes' = writes /\ artifact' = artifact)
       /\ (pc = "suite" /\ stopTestRunWriting(FALSE)
              /\ exception' = Some(OSError)) => pc' = "raised Exception"
       /\ (run_tests_exceptWriting(FALSE)
              \/ run_tests_except_Exception(FALSE)) => pc' = "unhandled"
       /\ pc \in {"unhandled", "propagated", "returned"} =>
              writes' = writes]_vars

\* The write of stopTestRun and the write of the handler have both failed
\* and run_tests has raised to its caller with no results.json.
C34_Witness ==
    /\ pc = "propagated"
    /\ last_event = "stopTestRun"
    /\ writes = 2
    /\ artifact = None

\* The records a reader of the results finds: those of the recorder's
\* dictionary and those of results.json.
Records ==
    {utsg_results.tests[i] : i \in 1..Len(utsg_results.tests)} \cup
    (IF artifact = None THEN {}
     ELSE {artifact[1].tests[i] : i \in 1..Len(artifact[1].tests)})

\* C35: every record of the tests list has name, max_points and points,
\* and points is set; it has description, message, output and images
\* exactly when the outcome's value is non-empty; it has no other key, so
\* neither status nor hidden nor include_in_results.
C35_RecordKeys ==
    /\ \A record \in Records :
          /\ {"name", "max_points", "points"} \subseteq DOMAIN record
          /\ record.points # None
          /\ \A k \in {"description", "message", "output"} :
                k \in DOMAIN record => record[k] \notin {None, Some("")}
          /\ "images" \in DOMAIN record => record.images # <<>>
          /\ DOMAIN record \subseteq
                 {"name", "max_points", "points", "description", "message",
                  "output", "images"}
    /\ pc = "done" =>
          /\ Len(utsg_results.tests) = Len(visible_tests_info)
          /\ \A i \in 1..Len(visible_tests_info) :
                LET info == Deref(Heap, visible_tests_info[i])
                    record == utsg_results.tests[i]
                IN  /\ info.description \notin {None, Some("")}
                           => "description" \in DOMAIN record
                    /\ info.message \notin {None, Some("")}
                           => "message" \in DOMAIN record
                    /\ info.output \notin {None, Some("")}
                           => "output" \in DOMAIN record
                    /\ info.images # <<>> => "images" \in DOMAIN record

\* results.json holds a record with all four optional keys and a record
\* with none of them (its outcome's message is the empty string).
C35_Witness ==
    /\ pc = "done"
    /\ artifact # None
    /\ \E i, j \in 1..Len(artifact[1].tests) :
          /\ DOMAIN artifact[1].tests[i] =
                 {"name", "max_points", "points", "description", "message",
                  "output", "images"}
          /\ DOMAIN artifact[1].tests[j] = {"name", "max_points", "points"}

C37_BoundsOfLastStartedTest ==
    [][/\ \A b \in Bounds, ef \in BOOLEAN :
             (/\ startTest(b[1], b[2], ef)
              /\ InUnitInterval(b[1])
              /\ InUnitInterval(b[2]))
             => /\ utsg_score_floor' = b[1]
                /\ utsg_score_ceiling' = b[2]
                /\ utsg_test_case_info'[cur'].status = "RUNNING"
       /\ last_event' # "startTest" =>
             /\ utsg_score_floor' = utsg_score_floor
             /\ utsg_score_ceiling' = utsg_score_ceiling
       /\ (stopTestRun /\ ~scored /\ pc' = "done") =>
             utsg_results'.score =
                 PyMin(utsg_score_ceiling,
                       PyMax(utsg_score_floor, RawScore(Heap)))]_vars

\* Two tests were started, the second with floor and ceiling 1/2, and
\* stopTestRun has clamped the raw score 1 of the run to 1/2.
C37_Witness ==
    /\ pc = "done"
    /\ cur = 2
    /\ utsg_score_floor = Half
    /\ utsg_score_ceiling = Half
    /\ raw_score = Some(One)
    /\ utsg_results.score = Half

\* C38 as claimed: a sub-test joins its parent's sub-test list when its
\* scope is left, so when stopTest runs every sub-test in the list is
\* PASSED, FAILED or CRASHED.
C38_AppendedAtScopeExit ==
    [][/\ \A e \in SubTestExits :
             __exit__(e) =>
                 Len(utsg_subtests'[cur]) = Len(utsg_subtests[cur]) + 1
       /\ stopTest =>
             \A k \in 1..Len(utsg_subtests[cur]) :
                 utsg_subtests[cur][k].status \in ran]_vars

\* C38, amended: a sub-test joins its parent's sub-test list when it is
\* created, as SCHEDULED; leaving its scope changes only its own status; so
\* when stopTest runs the list holds every sub-test created, whatever its
\* status, and stopTest files exactly those that are PASSED, FAILED or
\* CRASHED and leaves the list as long as it was.
C38_AppendedAtCreation ==
    [][/\ \A include_in_results \in BOOLEAN, hidden \in SubTestHidden :
             add_graded_subTest(None, None, None, None, include_in_results,
                                hidden, FALSE, <<>>)
             => /\ Len(utsg_subtests'[cur]) = Len(utsg_subtests[cur]) + 1
                /\ utsg_subtests'[cur][Len(utsg_subtests'[cur])].status =
                       "SCHEDULED"
                /\ \A k \in 1..Len(utsg_subtests[cur]) :
                       utsg_subtests'[cur][k] = utsg_subtests[cur][k]
       /\ \A e \in SubTestExits :
             __exit__(e) =>
                 /\ Len(utsg_subtests'[cur]) = Len(utsg_subtests[cur])
                 /\ \A k \in 1..Len(utsg_subtests[cur]) :
                       k # open_sub =>
                           utsg_subtests'[cur][k] = utsg_subtests[cur][k]
       /\ stopTest =>
             /\ Len(utsg_subtests'[cur]) = Len(utsg_subtests[cur])
             /\ \A k \in 1..Len(utsg_subtests[cur]) :
                   (utsg_subtests[cur][k].status \in ran)
                       <=> (\E i \in 1..Len(Filed') : Filed'[i] = <<cur, k>>)
       ]_vars

\* stopTest has run for a test whose first sub-test passed and was filed
\* and whose second sub-test was created but never entered: it is in the
\* list, SCHEDULED and not filed.
C38_Witness ==
    /\ last_event = "stopTest"
    /\ Len(utsg_subtests[cur]) = 2
    /\ utsg_subtests[cur][1].status = "PASSED"
    /\ IsFiled(<<cur, 1>>)
    /\ utsg_subtests[cur][2].status = "SCHEDULED"
    /\ ~IsFiled(<<cur, 2>>)

\* C39: when stopTestRun has written results.json, its message is the
\* rendered summary followed by the message recorded during the run, or
\* the rendered summary alone when none was recorded.
C39_MessageHoldsSummary ==
    [][(stopTestRun /\ pc' = "done") =>
          /\ artifact'[1].message =
                 Some(final_results \o
                      (IF utsg_results.message = None THEN ""
                       ELSE utsg_results.message[1]))
          /\ utsg_results'.message = artifact'[1].message]_vars

\* C40: when stopTest is reached and no success, failure or error event was
\* delivered for the test (it was skipped, or it was expected to fail and
\* did), the test is still RUNNING and stopTest files it as PASSED with
\* points = max_points, which the summary of its partition counts as
\* earned.
C40_QuietTestGetsFullCredit ==
    [][(stopTest /\ last_event \in {"startTest", "addExpectedFailure"}) =>
          LET info == utsg_test_case_info[cur]
              partition ==
                  IF ~info.include_in_results THEN excluded_tests_info
                  ELSE IF info.hidden THEN hidden_tests_info
                  ELSE visible_tests_info
              partition_after ==
                  IF ~info.include_in_results THEN excluded_tests_info'
                  ELSE IF info.hidden THEN hidden_tests_info'
                  ELSE visible_tests_info'
          IN  /\ info.status = "RUNNING"
              /\ utsg_test_case_info'[cur].status = "PASSED"
              /\ utsg_test_case_info'[cur].points = Some(info.max_points)
              /\ partition_after = Append(partition, Cur)
              /\ UTSGRunSummary(Heap', partition_after).points_earned =
                     UTSGRunSummary(Heap, partition).points_earned
                         + info.max_points]_vars

\* A run whose only test never returned normally (it was skipped or failed
\* as expected) has ended: the test is PASSED with its 10 points of 10 and
\* the raw score is 1.
C40_Witness ==
    /\ pc = "done"
    /\ cur = 1
    /\ utsg_test_case_info[1].status = "PASSED"
    /\ utsg_test_case_info[1].max_points = 10
    /\ utsg_test_case_info[1].points = Some(10)
    /\ visible_tests_info = <<<<1, 0>>>>
    /\ raw_score = Some(One)

====
